---- MODULE Spec2Model ----
(***************************************************************************)
(* atmdb: asynchronous client for the TMDb API.                            *)
(*                                                                         *)
(* The model follows the asyncio execution of the client: a task runs from *)
(* one suspension point (an awaited HTTP response, an awaited sleep) to    *)
(* the next in one atomic step.  The coroutine call chain of a task is a   *)
(* stack of frames; an exception unwinds the whole stack, because no       *)
(* function of the package catches anything but the ValueError of int().   *)
(*                                                                         *)
(* Python values are records tagged with a "kind" field, so that None,     *)
(* parsed JSON bodies, entities and lists can be told apart.               *)
(***************************************************************************)
EXTENDS Integers, Sequences, FiniteSets, TLC

VARIABLES
    now,     \* datetime.now(), in whole days
    config,  \* TMDbClient.config: [data, last_update]
    live,    \* the tasks that use the client
    image_config, \* the image_config class attribute of Movie and of Person
    tasks,   \* per task: coroutine stack, outcome of the last operation, events
    ub,      \* url_builder called on its own: arguments and result
    ov,      \* _overlap called without a client: arguments and result
    md       \* the classes of models.py used on their own: arguments and results

vars == <<now, config, image_config, live, tasks, ub, ov, md>>

----------------------------------------------------------------------------
(* Bounds *)

NumTasks == 2
MaxNow == 3
MaxId == 2
MaxQueries == 2
MaxItems == 3
MaxRetryAfter == 1
MaxLimit == 16
MaxDecodes == 2
MaxSizes == 2

Tasks == 1..NumTasks
Ids == 1..MaxId

----------------------------------------------------------------------------
(* Python values *)

None == [kind |-> "None"]

IsNone(v) == v.kind = "None"

Datetime(t) == [kind |-> "datetime", t |-> t]

\* str(id_) as str.format renders an id; id_ is None for a body without "id"
NoId == 0

FormatId(id) == IF id = NoId THEN "None" ELSE ToString(id)

----------------------------------------------------------------------------
(* core.py: URL building *)

AUTH_PARAM == "api_key"

ROOT == "https://api.themoviedb.org/3/"

api_token == "some_api_token"

Lit(s) == [lit |-> s]

Ph(n) == [ph |-> n]

\* An endpoint template is a sequence of literal pieces and {name} placeholders.
EpConfiguration == <<Lit("configuration")>>
EpSearchMovie == <<Lit("search/movie")>>
EpSearchPerson == <<Lit("search/person")>>
EpMovie == <<Lit("movie/"), Ph("movie_id")>>
EpPerson == <<Lit("person/"), Ph("person_id")>>
EpCompany == <<Lit("company/"), Ph("company_id")>>
EpPopular == <<Lit("person/popular")>>

NoParams == [n \in {} |-> ""]

\* OrderedDict: a sequence of <<key, value>> with distinct keys
OdKeys(od) == {od[i][1] : i \in DOMAIN od}

OdIndex(od, k) == CHOOSE i \in DOMAIN od : od[i][1] = k

\* OrderedDict.__setitem__: an existing key keeps its position
OdSet(od, k, v) ==
    IF k \in OdKeys(od)
    THEN [od EXCEPT ![OdIndex(od, k)] = <<k, v>>]
    ELSE Append(od, <<k, v>>)

\* urllib.parse.quote_plus on the strings the model uses
QuotePlus(s) ==
    CASE s = "test movie" -> "test+movie"
      [] s = "some person" -> "some+person"
      [] OTHER -> s

\* urllib.parse.urlencode: key=value pairs in the mapping's order
urlencode(od) == [i \in DOMAIN od |-> <<od[i][1], QuotePlus(od[i][2])>>]

\* str.format(**params) over the pieces of the template
HasAllParams(endpoint, params) ==
    \A i \in DOMAIN endpoint :
        "ph" \in DOMAIN endpoint[i] => endpoint[i].ph \in DOMAIN params

Format(endpoint, params) ==
    [i \in DOMAIN endpoint |->
        IF "ph" \in DOMAIN endpoint[i]
        THEN params[endpoint[i].ph]
        ELSE endpoint[i].lit]

\* (a url_builder that leaves a placeholder without a value in the URL)
Service_url_builder_lenient(endpoint, params, url_params) ==
    [kind |-> "url",
     root |-> ROOT,
     path |-> [i \in DOMAIN endpoint |->
                 IF "ph" \in DOMAIN endpoint[i]
                 THEN IF endpoint[i].ph \in DOMAIN params
                      THEN params[endpoint[i].ph]
                      ELSE endpoint[i].ph
                 ELSE endpoint[i].lit],
     query |-> IF url_params # <<>> THEN urlencode(url_params) ELSE <<>>]

\* Service.url_builder
Service_url_builder(endpoint, params, url_params) ==
    IF ~HasAllParams(endpoint, params)
    THEN [kind |-> "raise", exc |-> "KeyError"]
    ELSE [kind |-> "url",
          root |-> ROOT,
          path |-> Format(endpoint, params),
          query |-> IF url_params # <<>> THEN urlencode(url_params) ELSE <<>>]

\* UrlParamMixin.url_builder: the result, and the caller's mapping as the call
\* leaves it
url_builder(endpoint, params, url_params) ==
    LET withAuth == OdSet(url_params, AUTH_PARAM, api_token)
    IN  [result |-> Service_url_builder(endpoint, params, withAuth),
         url_params |-> withAuth]

Url(endpoint, params, url_params) == url_builder(endpoint, params, url_params).result

ConfigurationUrl == Url(EpConfiguration, NoParams, <<>>)

----------------------------------------------------------------------------
(* The HTTP transport: what aiohttp hands to get_data *)

OK == 200

TOO_MANY_REQUESTS == 429

NOT_FOUND == 404

TwoDays == 2

\* Bytes that json.loads rejects, and a JSON document that is not an object
Garbage == [kind |-> "garbage"]

Array == [kind |-> "array"]

\* A JSON object, by the keys the client reads.  A key the document lacks has
\* the value its reader's default gives: {} for the cast lists, <<>> for results.
\* total_results of a document without that key
NoTotal == -1

EmptyObject ==
    [kind |-> "object", status_message |-> FALSE, id |-> NoId,
     credits |-> {}, movie_credits |-> {}, results |-> <<>>, images |-> 0,
     total_results |-> NoTotal]

ErrorBodies == {EmptyObject, [EmptyObject EXCEPT !.status_message = TRUE]}

\* The service answers a detail request with the entity of the requested id
MovieBodies(id) == {[EmptyObject EXCEPT !.id = i, !.credits = c] :
                        i \in {j \in Ids : FormatId(j) = id}, c \in SUBSET Ids}

PersonBodies(id) == {[EmptyObject EXCEPT !.id = i, !.movie_credits = c] :
                        i \in {j \in Ids : FormatId(j) = id}, c \in SUBSET Ids}

SearchBodies == {[EmptyObject EXCEPT !.results = <<i>>] : i \in Ids}
                \cup {[EmptyObject EXCEPT !.results = <<1, 2>>]}

\* The popular-people listing of the service: `size` entries a page, `total`
\* entries in all.  The entry at overall zero-based position n has id n + 1.
TestPageLength == 10

Listings ==
    {[size |-> L, total |-> N] :
        L \in {1, 2, TestPageLength}, N \in {0, 1, 2, 3, 4, 2 * TestPageLength}}

PageOf(listing, page) ==
    LET first == (page - 1) * listing.size
        last == IF page * listing.size < listing.total
                THEN page * listing.size
                ELSE listing.total
    IN  [k \in 1..(IF last > first THEN last - first ELSE 0) |-> first + k]

\* The documents that answer a request of page `page` (as the URL spells it)
PageBodies(page) ==
    {[EmptyObject EXCEPT !.results = PageOf(l, p), !.total_results = l.total] :
        l \in Listings, p \in {q \in 1..MaxLimit : ToString(q) = page}}

\* Two versions of the configuration document, told apart by their images entry
ConfigBodies == {[EmptyObject EXCEPT !.images = v] : v \in 1..2}

\* What any endpoint may also answer: for a 200 the client never reads
\* status_message
Junk == {Garbage, Array} \cup ErrorBodies

Junk200 == {Garbage, Array, EmptyObject}

\* The documents the service answers 200 with, by endpoint
BodiesFor(url) ==
    CASE url.path[1] = "configuration" -> ConfigBodies
      [] url.path[1] = "search/movie" -> SearchBodies
      [] url.path[1] = "search/person" -> SearchBodies
      [] url.path[1] = "movie/" -> MovieBodies(url.path[2])
      [] url.path[1] = "person/" -> PersonBodies(url.path[2])
      [] url.path[1] = "person/popular" -> PageBodies(url.query[1][2])
      [] OTHER -> {}

\* The Retry-After header of a response: absent, delta-seconds, or an HTTP date
\* (the time it names)
NoHeader == [kind |-> "absent"]

RetryAfterValues ==
    {NoHeader}
    \cup {[kind |-> "str", form |-> "int", n |-> n] : n \in 0..MaxRetryAfter}
    \cup {[kind |-> "str", form |-> "date", n |-> now + n] : n \in 0..MaxRetryAfter}

\* response.headers
Headers(h) == [kind |-> "mapping", retry_after |-> h]

Responses(url) ==
    {[status |-> OK, body |-> b, headers |-> Headers(NoHeader)] :
            b \in BodiesFor(url) \cup Junk200}
    \cup {[status |-> st, body |-> b, headers |-> Headers(NoHeader)] :
            st \in {NOT_FOUND}, b \in Junk}
    \cup {[status |-> TOO_MANY_REQUESTS, body |-> b, headers |-> Headers(h)] :
            b \in Junk, h \in RetryAfterValues}

Val(v) == [kind |-> "return", val |-> v]

Exc(e) == [kind |-> "raise", exc |-> e]

\* Service.calculate_timeout.  `headers` is whatever the caller passes: the
\* function subscripts it with 'Retry-After', which a mapping supports and a
\* str does not.  int(after) reads delta-seconds; an HTTP date is parsed and
\* the current time subtracted.
calculate_timeout(headers) ==
    IF headers.kind # "mapping"
    THEN Exc("TypeError")
    ELSE IF headers.retry_after.kind = "absent"
    THEN Exc("KeyError")
    ELSE LET after == headers.retry_after
         IN  IF after.form = "int" THEN Val(after.n) ELSE Val(after.n - now)

----------------------------------------------------------------------------
(* models.py: entities, as far as the client and the utilities use them *)

\* `{...} or None`: an empty set of related entities is stored as None
SetOrNone(ids) == IF ids = {} THEN None ELSE [kind |-> "set", ids |-> ids]

Movie(id, cast) == [kind |-> "Movie", id_ |-> id, rel |-> cast]

Person(id, movie_credits) == [kind |-> "Person", id_ |-> id, rel |-> movie_credits]

List(items) == [kind |-> "list", items |-> items]

\* image_config is a class attribute: from_json assigns it on the class it is
\* called on.  Movie.from_json decodes the cast with Person.from_json first,
\* Person.from_json the credits with Movie.from_json.
Movie_from_json(s, json, images) ==
    LET nested == IF json.credits # {}
                  THEN [s.image_config EXCEPT !.Person = images]
                  ELSE s.image_config
    IN  [s |-> [s EXCEPT !.image_config = [nested EXCEPT !.Movie = images],
                         !.trace = Append(@, [e |-> "from_json", cls |-> "Movie"])],
         val |-> Movie(json.id, SetOrNone(json.credits))]

Person_from_json(s, json, images) ==
    LET nested == IF json.movie_credits # {}
                  THEN [s.image_config EXCEPT !.Movie = images]
                  ELSE s.image_config
    IN  [s |-> [s EXCEPT !.image_config = [nested EXCEPT !.Person = images],
                         !.trace = Append(@, [e |-> "from_json", cls |-> "Person"])],
         val |-> Person(json.id, SetOrNone(json.movie_credits))]

\* An item of a search result carries an id and no credits
Item(id) == [EmptyObject EXCEPT !.id = id]

RECURSIVE from_json_each(_, _, _, _)
from_json_each(s, cls, ids, images) ==
    IF ids = <<>>
    THEN [s |-> s, val |-> <<>>]
    ELSE LET first == IF cls = "Movie"
                      THEN Movie_from_json(s, Item(Head(ids)), images)
                      ELSE Person_from_json(s, Item(Head(ids)), images)
             rest == from_json_each(first.s, cls, Tail(ids), images)
         IN  [s |-> rest.s, val |-> <<first.val>> \o rest.val]

----------------------------------------------------------------------------
(* models.py: the classes used on their own *)

\* A key that a dict lacks
Missing == [kind |-> "absent"]

\* dict.get(key): None for a key the dict lacks
Get(v) == IF v.kind = "absent" THEN None ELSE v

\* Strings of a release_date / birthday: 'YYYY-MM-DD' for day n, '', and a text
\* that is no date, such as '2016'
DateStr(n) == [kind |-> "str", form |-> "date", n |-> n]

EmptyStr == [kind |-> "str", form |-> "empty", n |-> 0]

BadDateStr == [kind |-> "str", form |-> "text", n |-> 0]

PathStr == [kind |-> "str", form |-> "path", n |-> 0]

\* datetime.date
Date(n) == [kind |-> "date", n |-> n]

\* `None if not release else datetime.strptime(release, '%Y-%m-%d').date()`:
\* strptime raises ValueError on a text that does not match and TypeError on
\* what is no str (a date object is truthy)
parse_date(release) ==
    IF release.kind = "None"
    THEN Val(None)
    ELSE IF release.kind = "str"
    THEN IF release.form = "empty"
         THEN Val(None)
         ELSE IF release.form = "date"
         THEN Val(Date(release.n))
         ELSE Exc("ValueError")
    ELSE Exc("TypeError")

\* A dict handed to from_json, by the keys the decoder of its class reads:
\* id, the nested credits ('credits' for a movie, 'movie_credits' for a person),
\* the date ('release_date' / 'birthday') and the image path.
Dict(id, nested, date, image_path) ==
    [kind |-> "dict", id |-> id, nested |-> nested, date |-> date,
     image_path |-> image_path]

\* {'cast': [{'id': i}, ...]}; `decoded` once from_json has run on the items
Credits(ids) == [kind |-> "credits", ids |-> ids, decoded |-> FALSE]

\* The entity cls(**{...}) builds: BaseModel.from_json reads every attribute
\* with json.get, so a dict without 'id' gives an entity whose id_ is None
Entity(cls, id, rel, date, image_path) ==
    [kind |-> cls, id_ |-> id, rel |-> rel, date |-> date, image_path |-> image_path]

\* Movie.from_json: the entity or the exception, the dict as the call leaves
\* it, and the classes whose image_config it assigned.  The cast is decoded
\* first, each person dict by Person.from_json, which stores None under the
\* person dict's 'movie_credits'; then the date, stored back under
\* 'release_date'; json['cast'] is written and not read.
MovieFromJson(json) ==
    LET credits == json.nested
    IN  IF credits.kind \notin {"absent", "credits"}
        THEN [out |-> Exc("AttributeError"), json |-> json, assigned |-> {}]
        ELSE IF credits.kind = "credits" /\ credits.decoded
        THEN [out |-> Exc("AttributeError"), json |-> json, assigned |-> {}]
        ELSE LET cast == IF credits.kind = "absent" THEN None ELSE SetOrNone(credits.ids)
                 nested == IF IsNone(cast) THEN {} ELSE {"Person"}
                 json1 == IF IsNone(cast)
                          THEN json
                          ELSE [json EXCEPT !.nested.decoded = TRUE]
                 release == parse_date(Get(json.date))
             IN  IF release.kind = "raise"
                 THEN [out |-> release, json |-> json1, assigned |-> nested]
                 ELSE [out |-> Val(Entity("Movie", json.id, cast, release.val,
                                          Get(json.image_path))),
                       json |-> [json1 EXCEPT !.date = release.val],
                       assigned |-> nested \cup {"Movie"}]

\* Person.from_json.  The set of decoded movies (or None) is stored under
\* 'movie_credits', the key the credits are read from.
PersonFromJson(json) ==
    LET credits == json.nested
    IN  IF credits.kind \notin {"absent", "credits"}
        THEN [out |-> Exc("AttributeError"), json |-> json, assigned |-> {}]
        ELSE LET movie_credits == IF credits.kind = "absent"
                                  THEN None
                                  ELSE SetOrNone(credits.ids)
                 nested == IF IsNone(movie_credits) THEN {} ELSE {"Movie"}
                 json1 == [json EXCEPT !.nested = movie_credits]
                 birthday == parse_date(Get(json.date))
             IN  IF birthday.kind = "raise"
                 THEN [out |-> birthday, json |-> json1, assigned |-> nested]
                 ELSE [out |-> Val(Entity("Person", json.id, movie_credits,
                                          birthday.val, Get(json.image_path))),
                       json |-> [json1 EXCEPT !.date = birthday.val],
                       assigned |-> nested \cup {"Person"}]

\* BaseModel.__eq__: Movie and Person are sibling classes
__eq__(self, other) == other.kind = self.kind /\ self.id_ = other.id_

\* BaseModel.__hash__: the hash of a small int is the int
__hash__(self) == self.id_

\* CONTAINS['type']: a movie contains people, a person movies
CONTAINS(cls) == IF cls = "Movie" THEN "Person" ELSE "Movie"

Bool(b) == [kind |-> "bool", b |-> b]

\* BaseModel.__contains__: `isinstance(item, cls) and item in getattr(self, attr)`.
\* `and` does not evaluate the membership for an item of another class; the
\* membership in None (no cast, no movie credits) is a TypeError; the
\* membership in the set is by hash and ==, that is by id.
__contains__(self, item) ==
    IF item.kind # CONTAINS(self.kind)
    THEN Val(Bool(FALSE))
    ELSE IF IsNone(self.rel)
    THEN Exc("TypeError")
    ELSE Val(Bool(item.id_ \in self.rel.ids))

IMAGE_TYPE(cls) == IF cls = "Movie" THEN "poster" ELSE "profile"

\* A size token: 'w342' is Size("w", 342), 'original' has no number
Size(prefix, n) == [prefix |-> prefix, n |-> n]

Original == Size("original", 0)

PosterSizes ==
    <<Size("w", 92), Size("w", 154), Size("w", 185), Size("w", 342),
      Size("w", 500), Size("w", 780), Original>>

ProfileSizes == <<Size("w", 45), Size("w", 185), Size("h", 632), Original>>

\* image_config['{}_sizes'.format(type_)]
SizesOf(images, type_) == IF type_ = "poster" THEN PosterSizes ELSE ProfileSizes

NoSizeDistance == 999

\* The key of the min() in _image_size
SizeKey(size, target_size) ==
    IF size.prefix \in {"w", "h"}
    THEN IF target_size >= size.n THEN target_size - size.n ELSE size.n - target_size
    ELSE NoSizeDistance

\* BaseModel._image_size: min() gives the first of the items with the least key
_image_size(sizes, target_size) ==
    IF sizes = <<>>
    THEN Exc("ValueError")
    ELSE Val(sizes[CHOOSE i \in DOMAIN sizes :
                     \A j \in DOMAIN sizes :
                         /\ SizeKey(sizes[i], target_size) <= SizeKey(sizes[j], target_size)
                         /\ j < i => SizeKey(sizes[j], target_size) > SizeKey(sizes[i], target_size)])

\* BaseModel._create_image_url: ''.join of the base URL, the size and the path
_create_image_url(images, file_path, type_, target_size) ==
    IF IsNone(images)
    THEN Val(None)
    ELSE LET size == _image_size(SizesOf(images, type_), target_size)
         IN  IF size.kind = "raise"
             THEN size
             ELSE IF IsNone(file_path)
             THEN Exc("TypeError")
             ELSE Val([kind |-> "image_url", base |-> images.ver, size |-> size.val,
                       path |-> file_path])

ImageUrlTarget == 200

\* BaseModel.image_url; self.image_config is the attribute of the class
image_url(self, images) ==
    _create_image_url(images, self.image_path, IMAGE_TYPE(self.kind), ImageUrlTarget)

----------------------------------------------------------------------------
(* utils.py: the intersection *)

\* (the entities of any item instead of those of every item)
RECURSIVE set_union(_)
set_union(sets) ==
    IF Len(sets) = 1
    THEN Head(sets)
    ELSE Head(sets) \cup set_union(Tail(sets))

RECURSIVE set_intersection(_)
set_intersection(sets) ==
    IF Len(sets) = 1
    THEN Head(sets)
    ELSE Head(sets) \cap set_intersection(Tail(sets))

\* set.intersection(*(getattr(item, overlap_attr) for item in items)): the
\* generator is exhausted first (an item that is None has no attribute), then
\* set.intersection wants at least one argument and sets throughout.
overlap_of(items) ==
    IF \E i \in DOMAIN items : IsNone(items[i])
    THEN Exc("AttributeError")
    ELSE IF items = <<>> \/ \E i \in DOMAIN items : IsNone(items[i].rel)
    THEN Exc("TypeError")
    ELSE Val(set_intersection([i \in DOMAIN items |-> items[i].rel.ids]))

\* Iteration over the resulting set.  Entities hash by their id, and CPython
\* iterates a small set of small ints in ascending order.
RECURSIVE SetToSeq(_)
SetToSeq(S) ==
    IF S = {}
    THEN <<>>
    ELSE LET m == CHOOSE x \in S : \A y \in S : x <= y
         IN  <<m>> \o SetToSeq(S \ {m})

----------------------------------------------------------------------------
(* client.py: the coroutines of a task *)

\* A machine state s is what a task's step reads and writes: the client's
\* config, the class attributes, and the task's stack, outcome and events.
Pending == [kind |-> "pending"]

Top(s) == s.stack[Len(s.stack)]

Pop(s) == [s EXCEPT !.stack = SubSeq(@, 1, Len(@) - 1)]

Push(s, f) == [s EXCEPT !.stack = Append(@, f)]

Log(s, ev) == [s EXCEPT !.trace = Append(@, ev)]

\* An exception that nothing catches ends the operation
Raise(s, exc) == [s EXCEPT !.stack = <<>>, !.out = Exc(exc)]

\* self.config['data'].get('images')
Images(data) == IF data.images = 0 THEN None ELSE [kind |-> "images", ver |-> data.images]

\* (a configuration exactly two days old taken for expired)
config_expired_inclusive(c) == (c.last_update.t + TwoDays) <= now

config_expired(c) == (c.last_update.t + TwoDays) < now

\* The event of a response: its status, whether it carries Retry-After, and
\* its body (for a status other than 200 only what kind of document it is)
Received(url, response) ==
    [e |-> "response", url |-> url, status |-> response.status,
     retry_after |-> response.headers.retry_after.kind # "absent",
     body |-> IF response.status = OK THEN response.body ELSE [kind |-> response.body.kind]]

RECURSIVE Return(_, _)

\* get_data up to `session.get(url, ...)`: the request is on the wire
get_data(s, url) ==
    Log(Push(s, [fn |-> "get_data", url |-> url, await |-> "http"]),
        [e |-> "GET", url |-> url])

_update_config(s) ==
    LET stale == IsNone(s.config.data) \/ config_expired(s.config)
        s1 == Log(s, [e |-> "_update_config", fetch |-> stale])
    IN  IF stale
        THEN get_data(Push(s1, [fn |-> "_update_config"]), ConfigurationUrl)
        ELSE Return(s1, None)

\* (get_data returning a 200 body without the configuration check)
get_data_ok_unchecked(s, url, body) == Return(Pop(s), body)

\* get_data on a 200: the configuration check, unless the request was the
\* configuration's own, then the body
get_data_ok(s, url, body) ==
    IF url # ConfigurationUrl
    THEN _update_config(Push(Pop(s),
             [fn |-> "get_data", url |-> url, await |-> "_update_config",
              body |-> body]))
    ELSE Return(Pop(s), body)

\* get_data from the response on
get_data_response(s, response) ==
    LET url == Top(s).url
        s1 == Log(s, Received(url, response))
    IN  IF response.body.kind = "garbage"
        THEN Raise(s1, "JSONDecodeError")
        ELSE IF response.status = OK
        THEN get_data_ok(s1, url, response.body)
        ELSE IF response.status = TOO_MANY_REQUESTS
        THEN IF response.headers.retry_after.kind = "absent"
             THEN Raise(s1, "KeyError")
             ELSE LET timeout == calculate_timeout(response.headers.retry_after)
                  IN  IF timeout.kind = "raise"
                      THEN Raise(s1, timeout.exc)
                      ELSE Log(Push(Pop(s1),
                                   [fn |-> "get_data", url |-> url, await |-> "sleep",
                                    wake |-> now + timeout.val]),
                               [e |-> "sleep", timeout |-> timeout.val])
        ELSE IF response.body.kind # "object"
        THEN Raise(s1, "AttributeError")
        ELSE Return(Pop(s1), None)

\* get_data after asyncio.sleep: `return await self.get_data(url)`
get_data_retry(s) == get_data(Pop(s), Top(s).url)

get_movie(s, id_) ==
    LET url == Url(EpMovie, [n \in {"movie_id"} |-> FormatId(id_)],
                   <<<<"append_to_response", "credits">>>>)
    IN  IF url.kind = "raise"
        THEN Raise(s, url.exc)
        ELSE get_data(Push(s, [fn |-> "get_movie"]), url)

get_person(s, id_) ==
    LET url == Url(EpPerson, [n \in {"person_id"} |-> FormatId(id_)],
                   <<<<"append_to_response", "movie_credits">>>>)
    IN  IF url.kind = "raise"
        THEN Raise(s, url.exc)
        ELSE get_data(Push(s, [fn |-> "get_person"]), url)

find_movie(s, query) ==
    LET url == Url(EpSearchMovie, NoParams,
                   <<<<"query", query>>, <<"include_adult", "False">>>>)
    IN  IF url.kind = "raise"
        THEN Raise(s, url.exc)
        ELSE get_data(Push(s, [fn |-> "find_movie"]), url)

find_person(s, query) ==
    LET url == Url(EpSearchPerson, NoParams,
                   <<<<"query", query>>, <<"include_adult", "False">>>>)
    IN  IF url.kind = "raise"
        THEN Raise(s, url.exc)
        ELSE get_data(Push(s, [fn |-> "find_person"]), url)

\* (get_movie / get_person without the `if data is None: return`)
get_return_unguarded(s, cls, data) ==
    IF s.config.data.kind # "object" \/ data.kind # "object"
    THEN Raise(s, "AttributeError")
    ELSE LET decoded == IF cls = "Movie"
                        THEN Movie_from_json(s, data, Images(s.config.data))
                        ELSE Person_from_json(s, data, Images(s.config.data))
         IN  Return(decoded.s, decoded.val)

\* get_movie / get_person from `data = await self.get_data(url)` on
get_return(s, cls, data) ==
    IF IsNone(data)
    THEN Return(s, None)
    ELSE IF s.config.data.kind # "object" \/ data.kind # "object"
    THEN Raise(s, "AttributeError")
    ELSE LET decoded == IF cls = "Movie"
                        THEN Movie_from_json(s, data, Images(s.config.data))
                        ELSE Person_from_json(s, data, Images(s.config.data))
         IN  Return(decoded.s, decoded.val)

\* find_movie / find_person from `data = await self.get_data(url)` on
\* The "find_return" event records what the search handed to its caller.
find_return(s, cls, data) ==
    IF IsNone(data)
    THEN Return(Log(s, [e |-> "find_return", val |-> None]), None)
    ELSE IF data.kind # "object"
    THEN Raise(s, "AttributeError")
    ELSE IF data.results = <<>>
    THEN Return(Log(s, [e |-> "find_return", val |-> List(<<>>)]), List(<<>>))
    ELSE IF s.config.data.kind # "object"
    THEN Raise(s, "AttributeError")
    ELSE LET decoded == from_json_each(s, cls, data.results, Images(s.config.data))
         IN  Return(Log(decoded.s, [e |-> "find_return", val |-> List(decoded.val)]),
                    List(decoded.val))

\* _get_popular_people_page
_get_popular_people_page(s, page) ==
    get_data(s, Url(EpPopular, NoParams, <<<<"page", ToString(page)>>>>))

\* (the in-page index as the remainder of the division)
_calculate_page_index_exact(index, data) ==
    IF index > data.total_results
    THEN Exc("ValueError")
    ELSE IF Len(data.results) = 0
    THEN Exc("ZeroDivisionError")
    ELSE Val([page |-> (index \div Len(data.results)) + 1,
              index |-> index % Len(data.results)])

\* TMDbClient._calculate_page_index
_calculate_page_index(index, data) ==
    IF index > data.total_results
    THEN Exc("ValueError")
    ELSE IF Len(data.results) = 0
    THEN Exc("ZeroDivisionError")
    ELSE Val([page |-> (index \div Len(data.results)) + 1,
              index |-> (index % Len(data.results)) - 1])

\* get_random_popular_person up to the first page's request
get_random_popular_person(s, index) ==
    _get_popular_people_page(
        Push(Log(s, [e |-> "randrange", index |-> index]),
             [fn |-> "get_random_popular_person", phase |-> "first", index |-> index]),
        1)

\* `Person.from_json(data['results'][index], self.config['data'].get('images'))`:
\* a negative index counts from the end of the list
popular_person_select(s, data, index) ==
    IF data.kind # "object"
    THEN Raise(s, "TypeError")
    ELSE IF data.total_results = NoTotal
    THEN Raise(s, "KeyError")
    ELSE LET n == Len(data.results)
             i == IF index < 0 THEN index + n ELSE index
         IN  IF i < 0 \/ i >= n
             THEN Raise(s, "IndexError")
             ELSE IF s.config.data.kind # "object"
             THEN Raise(s, "AttributeError")
             ELSE LET decoded == Person_from_json(s, Item(data.results[i + 1]),
                                                  Images(s.config.data))
                  IN  Return(decoded.s, decoded.val)

\* get_random_popular_person when an awaited page arrives
get_random_popular_person_return(s, f, data) ==
    IF IsNone(data)
    THEN Return(s, None)
    ELSE IF f.phase = "second"
    THEN popular_person_select(s, data, f.index)
    ELSE IF data.kind # "object"
    THEN Raise(s, "TypeError")
    ELSE IF data.total_results = NoTotal
    THEN Raise(s, "KeyError")
    ELSE IF f.index >= Len(data.results)
    THEN LET at == _calculate_page_index(f.index, data)
         IN  IF at.kind = "raise"
             THEN Raise(s, at.exc)
             ELSE _get_popular_people_page(
                      Push(Log(s, [e |-> "_calculate_page_index",
                                   page |-> at.val.page, index |-> at.val.index]),
                           [f EXCEPT !.phase = "second", !.index = at.val.index]),
                      at.val.page)
    ELSE popular_person_select(s, data, f.index)

----------------------------------------------------------------------------
(* utils.py: the coroutines *)

\* getattr(client, method)(...)
client_call(s, method, arg) ==
    CASE method = "get_movie" -> get_movie(s, arg)
      [] method = "get_person" -> get_person(s, arg)
      [] method = "find_movie" -> find_movie(s, arg)
      [] method = "find_person" -> find_person(s, arg)

\* _overlap with a client, from the intersection on
_overlap_next(s, get_method, todo, results) ==
    IF todo = <<>>
    THEN Return(s, List(results))
    ELSE client_call(Push(s, [fn |-> "_overlap", get_method |-> get_method,
                              todo |-> Tail(todo), results |-> results]),
                     get_method, Head(todo))

\* (an _overlap that resolves the set of the first item alone)
_overlap_first(s, items, get_method) ==
    LET overlap == overlap_of(items)
    IN  IF overlap.kind = "raise"
        THEN Raise(s, overlap.exc)
        ELSE _overlap_next(s, get_method, SetToSeq(items[1].rel.ids), <<>>)

\* _overlap with a client: the intersection, then one awaited call per entity
_overlap(s, items, get_method) ==
    LET overlap == overlap_of(items)
    IN  IF overlap.kind = "raise"
        THEN Raise(s, overlap.exc)
        ELSE _overlap_next(s, get_method, SetToSeq(overlap.val), <<>>)

\* overlapping_movies resolves with get_movie, overlapping_actors with get_person
OverlapGetMethod(get_method) ==
    IF get_method = "get_person" THEN "get_movie" ELSE "get_person"

\* _find_overlap at the head of its loop, at query i
_find_overlap_loop(s, f) ==
    IF f.i > Len(f.queries)
    THEN _overlap(s, f.results, OverlapGetMethod(f.get_method))
    ELSE client_call(Push(s, [f EXCEPT !.phase = "find"]), f.find_method, f.queries[f.i])

_find_overlap(s, queries, find_method, get_method) ==
    _find_overlap_loop(s, [fn |-> "_find_overlap", queries |-> queries, i |-> 1,
                           results |-> <<>>, phase |-> "find",
                           find_method |-> find_method, get_method |-> get_method])

\* (_find_overlap passing over a query without a match)
_find_overlap_return_skipping(s, f, v) ==
    IF f.phase = "find"
    THEN IF IsNone(v) \/ v.items = <<>>
         THEN _find_overlap_loop(s, [f EXCEPT !.i = @ + 1])
         ELSE client_call(Push(s, [f EXCEPT !.phase = "get"]),
                          f.get_method, v.items[1].id_)
    ELSE _find_overlap_loop(s, [f EXCEPT !.i = @ + 1, !.results = Append(@, v)])

\* _find_overlap when the awaited client call returns
_find_overlap_return(s, f, v) ==
    IF f.phase = "find"
    THEN IF IsNone(v) \/ v.items = <<>>
         THEN Raise(s, "ValueError")
         ELSE client_call(Push(s, [f EXCEPT !.phase = "get"]),
                          f.get_method, v.items[1].id_)
    ELSE _find_overlap_loop(s, [f EXCEPT !.i = @ + 1, !.results = Append(@, v)])

\* The awaited coroutine returned v: its caller, the frame below, goes on
Return(s, v) ==
    IF s.stack = <<>>
    THEN [s EXCEPT !.out = Val(v)]
    ELSE LET f == Top(s)
             s0 == Pop(s)
         IN  CASE f.fn = "get_data" -> Return(s0, f.body)
               [] f.fn = "_update_config" ->
                    Return([s0 EXCEPT !.config =
                                [data |-> v, last_update |-> Datetime(now)]], None)
               [] f.fn = "get_movie" -> get_return(s0, "Movie", v)
               [] f.fn = "get_person" -> get_return(s0, "Person", v)
               [] f.fn = "find_movie" -> find_return(s0, "Movie", v)
               [] f.fn = "find_person" -> find_return(s0, "Person", v)
               [] f.fn = "get_random_popular_person" ->
                    get_random_popular_person_return(s0, f, v)
               [] f.fn = "_overlap" ->
                    _overlap_next(s0, f.get_method, f.todo, Append(f.results, v))
               [] f.fn = "_find_overlap" -> _find_overlap_return(s0, f, v)

----------------------------------------------------------------------------
(* The client used by tasks *)

Queries == {"test movie", "brad"}

\* Sequences over S of length at most n
RECURSIVE SeqsUpTo(_, _)
SeqsUpTo(S, n) ==
    IF n = 0
    THEN {<<>>}
    ELSE LET shorter == SeqsUpTo(S, n - 1)
         IN  shorter \cup {Append(q, x) : q \in shorter, x \in S}

NoOp == [name |-> "none"]

IdleTask == [op |-> NoOp, stack |-> <<>>, out |-> Pending, trace |-> <<>>]

\* TMDbClient.__init__
NoConfig == [data |-> None, last_update |-> None]

Machine(t) ==
    [config |-> config, image_config |-> image_config,
     stack |-> <<>>, out |-> Pending, trace |-> <<>>]

Resumed(t) ==
    [config |-> config, image_config |-> image_config,
     stack |-> tasks[t].stack, out |-> tasks[t].out, trace |-> tasks[t].trace]

\* The step of task t that runs operation op and leaves the machine in s
Step(t, op, s) ==
    /\ config' = s.config
    /\ image_config' = s.image_config
    /\ tasks' = [tasks EXCEPT ![t] =
                    [op |-> op, stack |-> s.stack, out |-> s.out, trace |-> s.trace]]
    /\ UNCHANGED <<now, live, ub, ov, md>>

CanCall(t) == t \in live /\ tasks[t].stack = <<>>

\* The endpoints a caller builds a URL for itself, as
\* `client.get_data(client.url_builder('company/{company_id}', dict(...)))`
CallerArgs ==
    {[endpoint |-> EpConfiguration, params |-> NoParams],
     [endpoint |-> EpCompany, params |-> [n \in {"company_id"} |-> "508"]],
     [endpoint |-> EpCompany, params |-> NoParams],
     [endpoint |-> EpMovie, params |-> [n \in {"movie_id"} |-> "1"]],
     [endpoint |-> EpMovie, params |-> [n \in {"company_id"} |-> "508"]]}

GetData(t) ==
    /\ CanCall(t)
    /\ \E a \in CallerArgs :
          LET url == Url(a.endpoint, a.params, <<>>)
          IN  Step(t, [name |-> "get_data", endpoint |-> a.endpoint, params |-> a.params],
                   IF url.kind = "raise"
                   THEN Raise(Machine(t), url.exc)
                   ELSE get_data(Machine(t), url))

UpdateConfig(t) ==
    /\ CanCall(t)
    /\ Step(t, [name |-> "_update_config"], _update_config(Machine(t)))

GetMovie(t) ==
    /\ CanCall(t)
    /\ \E id_ \in Ids :
          Step(t, [name |-> "get_movie", id_ |-> id_], get_movie(Machine(t), id_))

GetPerson(t) ==
    /\ CanCall(t)
    /\ \E id_ \in Ids :
          Step(t, [name |-> "get_person", id_ |-> id_], get_person(Machine(t), id_))

FindMovie(t) ==
    /\ CanCall(t)
    /\ \E query \in Queries :
          Step(t, [name |-> "find_movie", query |-> query], find_movie(Machine(t), query))

FindPerson(t) ==
    /\ CanCall(t)
    /\ \E query \in Queries :
          Step(t, [name |-> "find_person", query |-> query], find_person(Machine(t), query))

FindOverlappingMovies(t) ==
    /\ CanCall(t)
    /\ \E names \in SeqsUpTo(Queries, MaxQueries) :
          Step(t, [name |-> "find_overlapping_movies", queries |-> names],
               _find_overlap(Machine(t), names, "find_person", "get_person"))

FindOverlappingActors(t) ==
    /\ CanCall(t)
    /\ \E titles \in SeqsUpTo(Queries, MaxQueries) :
          Step(t, [name |-> "find_overlapping_actors", queries |-> titles],
               _find_overlap(Machine(t), titles, "find_movie", "get_movie"))

\* get_random_popular_person(limit): random.randrange(limit) draws the index
GetRandomPopularPerson(t) ==
    /\ CanCall(t)
    /\ \E limit \in {1, 2, MaxLimit} :
          \E index \in 0..(limit - 1) :
              Step(t, [name |-> "get_random_popular_person", limit |-> limit],
                   get_random_popular_person(Machine(t), index))

\* The entities a caller hands to overlapping_movies / overlapping_actors
\* together with a client: each with a set of related entities, or None for it
OvEntities(cls) ==
    {[kind |-> cls, id_ |-> 1, rel |-> SetOrNone(S)] : S \in SUBSET Ids}

\* overlapping_movies(people, client)
OverlappingMovies(t) ==
    /\ CanCall(t)
    /\ \E people \in SeqsUpTo(OvEntities("Person"), MaxItems) :
          Step(t, [name |-> "overlapping_movies", items |-> people],
               _overlap(Machine(t), people, "get_movie"))

\* overlapping_actors(movies, client)
OverlappingActors(t) ==
    /\ CanCall(t)
    /\ \E movies \in SeqsUpTo(OvEntities("Movie"), MaxItems) :
          Step(t, [name |-> "overlapping_actors", items |-> movies],
               _overlap(Machine(t), movies, "get_person"))

\* The event loop resumes a suspended task: the response it awaits has come,
\* or the sleep it awaits is over
Resume(t) ==
    /\ t \in live
    /\ tasks[t].stack # <<>>
    /\ LET f == Top(Resumed(t))
       IN  IF f.await = "http"
           THEN \E response \in Responses(f.url) :
                   Step(t, tasks[t].op, get_data_response(Resumed(t), response))
           ELSE /\ f.await = "sleep"
                /\ now >= f.wake
                /\ Step(t, tasks[t].op, get_data_retry(Resumed(t)))

\* Time passes
Tick ==
    /\ now < MaxNow
    /\ now' = now + 1
    /\ UNCHANGED <<config, image_config, live, tasks, ub, ov, md>>

----------------------------------------------------------------------------
(* url_builder and the overlap functions called on their own *)

MaxUrlParams == 2

UrlParamKeys == {"query", "page", AUTH_PARAM}

UrlParamValues == {"test movie", "1"}

OrderedDicts ==
    {od \in SeqsUpTo(UrlParamKeys \X UrlParamValues, MaxUrlParams) :
        \A i, j \in DOMAIN od : i # j => od[i][1] # od[j][1]}

UbEndpoints == {EpConfiguration, EpSearchMovie, EpMovie, EpCompany}

UbParams == {NoParams, [n \in {"movie_id"} |-> "1"], [n \in {"company_id"} |-> "508"]}

UbIdle == [phase |-> "idle"]

OvIdle == [phase |-> "idle"]

MdIdle == [phase |-> "idle"]

\* client.url_builder(endpoint, params, url_params)
UrlBuilder ==
    /\ ub.phase = "args"
    /\ LET built == url_builder(ub.endpoint, ub.params, ub.url_params)
       IN  ub' = [ub EXCEPT !.phase = "done", !.out = built.result,
                            !.url_params = built.url_params]
    /\ UNCHANGED <<now, config, image_config, live, tasks, ov, md>>

\* The entities handed to overlapping_movies / overlapping_actors: built by the
\* caller, with a set of related entities, or None for it, or None for an entity
\* that a failed fetch did not yield
OvItems(cls) ==
    {None}
    \cup {[kind |-> cls, id_ |-> 1, rel |-> None]}
    \cup {[kind |-> cls, id_ |-> 1, rel |-> [kind |-> "set", ids |-> S]] : S \in SUBSET Ids}

\* overlapping_movies(people) / overlapping_actors(movies), client=None
Overlapping ==
    /\ ov.phase = "args"
    /\ LET overlap == overlap_of(ov.items)
       IN  ov' = [ov EXCEPT !.phase = "done",
                            !.out = IF overlap.kind = "raise"
                                    THEN overlap
                                    ELSE Val([kind |-> "set", ids |-> overlap.val])]
    /\ UNCHANGED <<now, config, image_config, live, tasks, ub, md>>

\* The dicts handed to from_json: with or without an id, credits, a date and
\* an image path
Dicts ==
    {Dict(id, nested, date, path) :
        id \in {NoId} \cup Ids,
        nested \in {Missing} \cup {Credits(S) : S \in SUBSET Ids},
        date \in {Missing, None, EmptyStr, BadDateStr, DateStr(1)},
        path \in {Missing, PathStr}}

\* Entities as a caller constructs them
Entities ==
    {Entity(cls, id, rel, None, None) :
        cls \in {"Movie", "Person"}, id \in Ids, rel \in {None, SetOrNone({1})}}

SizeTokens == {Size("w", 92), Size("w", 500), Size("h", 632), Original}

SizeLists == {PosterSizes, ProfileSizes} \cup SeqsUpTo(SizeTokens, MaxSizes)

TargetSizes == {ImageUrlTarget, 300, 500, 2000}

\* cls.from_json(json, image_config), again on the same dict up to MaxDecodes
\* times: `cls.image_config = image_config` assigns the class attribute
FromJson ==
    /\ md.phase = "call"
    /\ md.fn = "from_json"
    /\ Len(md.outs) < MaxDecodes
    /\ md.url = Missing
    /\ LET r == IF md.cls = "Movie" THEN MovieFromJson(md.json) ELSE PersonFromJson(md.json)
       IN  /\ md' = [md EXCEPT !.json = r.json, !.outs = Append(@, r.out)]
           /\ image_config' = [c \in {"Movie", "Person"} |->
                                  IF c \in r.assigned THEN md.images ELSE image_config[c]]
    /\ UNCHANGED <<now, config, live, tasks, ub, ov>>

\* entity.image_url of the entity decoded last
ImageUrl ==
    /\ md.phase = "call"
    /\ md.fn = "from_json"
    /\ md.outs # <<>>
    /\ md.outs[Len(md.outs)].kind = "return"
    /\ md.url = Missing
    /\ LET self == md.outs[Len(md.outs)].val
       IN  md' = [md EXCEPT !.url = image_url(self, image_config[self.kind])]
    /\ UNCHANGED <<now, config, image_config, live, tasks, ub, ov>>

\* a == b, hash(a), hash(b)
Eq ==
    /\ md.phase = "call"
    /\ md.fn = "__eq__"
    /\ md' = [md EXCEPT !.phase = "done",
                        !.out = [kind |-> "eq", eq |-> __eq__(md.a, md.b),
                                 hash_a |-> __hash__(md.a), hash_b |-> __hash__(md.b)]]
    /\ UNCHANGED <<now, config, image_config, live, tasks, ub, ov>>

\* Entities with a set of related entities, an empty one, or None for it
Containers ==
    {Entity(cls, 1, rel, None, None) :
        cls \in {"Movie", "Person"},
        rel \in {None} \cup {[kind |-> "set", ids |-> S] : S \in SUBSET Ids}}

\* item in container
Contains ==
    /\ md.phase = "call"
    /\ md.fn = "__contains__"
    /\ md' = [md EXCEPT !.phase = "done", !.out = __contains__(md.container, md.item)]
    /\ UNCHANGED <<now, config, image_config, live, tasks, ub, ov>>

\* BaseModel._image_size(image_config, type_, target_size)
ImageSize ==
    /\ md.phase = "call"
    /\ md.fn = "_image_size"
    /\ md' = [md EXCEPT !.phase = "done", !.out = _image_size(md.sizes, md.target)]
    /\ UNCHANGED <<now, config, image_config, live, tasks, ub, ov>>

----------------------------------------------------------------------------
(* Specifications *)

InitClient ==
    /\ now = 0
    /\ config = NoConfig
    /\ image_config = [Movie |-> None, Person |-> None]
    /\ tasks = [t \in Tasks |-> IdleTask]

Init ==
    /\ InitClient
    /\ live = {1}
    /\ ub = UbIdle
    /\ ov = OvIdle
    /\ md = MdIdle

Next ==
    \/ \E t \in Tasks : GetData(t)
    \/ \E t \in Tasks : UpdateConfig(t)
    \/ \E t \in Tasks : GetMovie(t)
    \/ \E t \in Tasks : GetPerson(t)
    \/ \E t \in Tasks : FindMovie(t)
    \/ \E t \in Tasks : FindPerson(t)
    \/ \E t \in Tasks : Resume(t)
    \/ Tick

Spec == Init /\ [][Next]_vars

\* The search-then-overlap helpers of utils.py on a client.  A batch takes
\* seconds, the configuration lasts days: no day passes within this specification.
NextFind ==
    \/ \E t \in Tasks : FindOverlappingMovies(t)
    \/ \E t \in Tasks : FindOverlappingActors(t)
    \/ \E t \in Tasks : Resume(t)

SpecFind == Init /\ [][NextFind]_vars

\* The overlap functions of utils.py on a client
NextResolve ==
    \/ \E t \in Tasks : OverlappingMovies(t)
    \/ \E t \in Tasks : OverlappingActors(t)
    \/ \E t \in Tasks : Resume(t)

SpecResolve == Init /\ [][NextResolve]_vars

\* get_random_popular_person, within the configuration's life
NextRandom ==
    \/ \E t \in Tasks : GetRandomPopularPerson(t)
    \/ \E t \in Tasks : Resume(t)

SpecRandom == Init /\ [][NextRandom]_vars

\* The documents and image configurations of a later from_json call
LaterDicts == {Dict(MaxId, nested, Missing, Missing) : nested \in {Missing, Credits({1})}}

LaterImages == {None} \cup {[kind |-> "images", ver |-> v] : v \in 1..2}

\* A later from_json call, of either class, once the image URL of the entity
\* decoded first has been read
FromJsonLater ==
    /\ md.phase = "call"
    /\ md.fn = "from_json"
    /\ md.url # Missing
    /\ ~md.later
    /\ \E cls \in {"Movie", "Person"}, json \in LaterDicts, images \in LaterImages :
          LET r == IF cls = "Movie" THEN MovieFromJson(json) ELSE PersonFromJson(json)
          IN  image_config' = [c \in {"Movie", "Person"} |->
                                  IF c \in r.assigned THEN images ELSE image_config[c]]
    /\ md' = [md EXCEPT !.later = TRUE]
    /\ UNCHANGED <<now, config, live, tasks, ub, ov>>

\* image_url of the entity decoded first, read again after the later call
ImageUrlLater ==
    /\ md.phase = "call"
    /\ md.fn = "from_json"
    /\ md.later
    /\ md.url2 = Missing
    /\ LET self == md.outs[Len(md.outs)].val
       IN  md' = [md EXCEPT !.url2 = image_url(self, image_config[self.kind])]
    /\ UNCHANGED <<now, config, image_config, live, tasks, ub, ov>>

\* Two tasks share one client whose configuration is absent, and call get_data
\* on it within the same instant
InitShared ==
    /\ InitClient
    /\ live = Tasks
    /\ ub = UbIdle
    /\ ov = OvIdle
    /\ md = MdIdle

NextShared ==
    \/ \E t \in Tasks : GetData(t)
    \/ \E t \in Tasks : Resume(t)

SpecShared == InitShared /\ [][NextShared]_vars

\* The classes of models.py called directly
InitModels ==
    /\ InitClient
    /\ live = {}
    /\ ub = UbIdle
    /\ ov = OvIdle
    /\ md \in {[phase |-> "call", fn |-> "from_json", cls |-> cls, given |-> json,
                 json |-> json, images |-> images, outs |-> <<>>, url |-> Missing,
                 later |-> FALSE, url2 |-> Missing] :
                    cls \in {"Movie", "Person"}, json \in Dicts,
                    images \in {None, [kind |-> "images", ver |-> 1]}}
           \cup {[phase |-> "call", fn |-> "__eq__", a |-> a, b |-> b, out |-> None] :
                    a \in Entities, b \in Entities}
           \cup {[phase |-> "call", fn |-> "__contains__", container |-> c,
                  item |-> i, out |-> None] :
                    c \in Containers, i \in Entities}
           \cup {[phase |-> "call", fn |-> "_image_size", sizes |-> sizes,
                  target |-> target, out |-> None] :
                    sizes \in SizeLists, target \in TargetSizes}

NextModels ==
    \/ FromJson
    \/ ImageUrl
    \/ FromJsonLater
    \/ ImageUrlLater
    \/ Eq
    \/ Contains
    \/ ImageSize

SpecModels == InitModels /\ [][NextModels]_vars

InitUrl ==
    /\ InitClient
    /\ live = {}
    /\ ov = OvIdle
    /\ md = MdIdle
    /\ ub \in {[phase |-> "args", endpoint |-> e, params |-> p, url_params |-> u,
                given |-> u, out |-> None] : e \in UbEndpoints, p \in UbParams, u \in OrderedDicts}

NextUrl == UrlBuilder

SpecUrl == InitUrl /\ [][NextUrl]_vars

InitOverlap ==
    /\ InitClient
    /\ live = {}
    /\ ub = UbIdle
    /\ md = MdIdle
    /\ ov \in {[phase |-> "args", fn |-> "overlapping_movies", items |-> items,
                out |-> None] : items \in SeqsUpTo(OvItems("Person"), MaxItems)}
           \cup {[phase |-> "args", fn |-> "overlapping_actors", items |-> items,
                out |-> None] : items \in SeqsUpTo(OvItems("Movie"), MaxItems)}

NextOverlap == Overlapping

SpecOverlap == InitOverlap /\ [][NextOverlap]_vars

----------------------------------------------------------------------------
(* Reading a task's events *)

Select(tr, kind) == SelectSeq(tr, LAMBDA ev : ev.e = kind)

ResponsesTo(tr, url) == SelectSeq(tr, LAMBDA ev : ev.e = "response" /\ ev.url = url)

GetsOf(tr, url) == SelectSeq(tr, LAMBDA ev : ev.e = "GET" /\ ev.url = url)

\* The events the step of task t adds: a resumed task extends its events, a new
\* operation starts them afresh
Added(t) ==
    IF tasks[t].stack # <<>>
    THEN SubSeq(tasks'[t].trace, Len(tasks[t].trace) + 1, Len(tasks'[t].trace))
    ELSE IF tasks'[t] = tasks[t] THEN <<>> ELSE tasks'[t].trace

\* Task t awaits the response of a refresh: _update_config called the get_data on top
Refreshing(t) ==
    /\ Len(tasks[t].stack) >= 2
    /\ tasks[t].stack[Len(tasks[t].stack) - 1].fn = "_update_config"

\* The URL of a page of the popular-people listing, and a task's requests of pages
PageUrl(page) == Url(EpPopular, NoParams, <<<<"page", ToString(page)>>>>)

PageGets(tr) == SelectSeq(tr, LAMBDA ev : ev.e = "GET" /\ ev.url.path = <<"person/popular">>)

\* The first page of a get_random_popular_person call was answered with a
\* document that lists entries
FirstPageListed(tk) ==
    /\ tk.op.name = "get_random_popular_person"
    /\ ResponsesTo(tk.trace, PageUrl(1)) # <<>>
    /\ ResponsesTo(tk.trace, PageUrl(1))[1].status = OK
    /\ ResponsesTo(tk.trace, PageUrl(1))[1].body.kind = "object"
    /\ ResponsesTo(tk.trace, PageUrl(1))[1].body.total_results # NoTotal

IsDataOp(op) == op.name \in {"get_movie", "get_person", "find_movie", "find_person"}

----------------------------------------------------------------------------
(* Claims *)

\* C1: a get_data(url) call answered by k >= 1 responses 429 carrying
\* Retry-After and then a 200 with payload P returns P after exactly k+1
\* requests of url.  So a call whose responses so far are all such 429s has not
\* failed (it sleeps or has asked again), and a call that returned after k of
\* them and a 200 returned that 200's payload after k+1 requests.
C1_RetryUntilOk ==
    \A t \in Tasks :
        LET tk == tasks[t]
        IN  (tk.op.name = "get_data" /\ HasAllParams(tk.op.endpoint, tk.op.params)) =>
            LET url == Url(tk.op.endpoint, tk.op.params, <<>>)
                rs == ResponsesTo(tk.trace, url)
                k == Len(rs) - 1
                Limited(i) == /\ rs[i].status = TOO_MANY_REQUESTS
                              /\ rs[i].retry_after
                              /\ rs[i].body.kind # "garbage"
            IN  /\ (rs # <<>> /\ \A i \in 1..Len(rs) : Limited(i)) =>
                        /\ tk.out.kind = "pending"
                        /\ tk.stack # <<>>
                /\ ( /\ k >= 1
                     /\ \A i \in 1..k : Limited(i)
                     /\ rs[k + 1].status = OK
                     /\ tk.out.kind = "return" ) =>
                        /\ tk.out.val = rs[k + 1].body
                        /\ Len(GetsOf(tk.trace, url)) = k + 1

\* C2: a get_data(url) call answered with a status other than 200 and 429
\* returns None whatever the body is, after exactly one request and without a
\* configuration check.
C2_OtherStatusReturnsNone ==
    \A t \in Tasks :
        LET tk == tasks[t]
        IN  (tk.op.name = "get_data" /\ HasAllParams(tk.op.endpoint, tk.op.params)) =>
            \A i \in DOMAIN tk.trace :
                (tk.trace[i].e = "response" /\ tk.trace[i].status \notin {OK, TOO_MANY_REQUESTS}) =>
                    /\ tk.out = Val(None)
                    /\ Len(Select(tk.trace, "GET")) = 1
                    /\ Select(tk.trace, "_update_config") = <<>>

\* C3: a refresh whose configuration request ends in a response other than 200
\* and 429 leaves the stored configuration (data and last_update) as it was.
C3_FailedRefreshKeepsConfig ==
    [][\A t \in Tasks :
          ( /\ Refreshing(t)
            /\ Added(t) # <<>>
            /\ Added(t)[1].e = "response"
            /\ Added(t)[1].status \notin {OK, TOO_MANY_REQUESTS} ) =>
                config' = config]_vars

\* C4: _update_config fetches if and only if no configuration data is stored or
\* now > last_update + 2 days; a fetch is one request of the configuration
\* endpoint, on whose success the data is stored with last_update = now; a fresh
\* configuration means no request and an unchanged configuration.
C4_RefreshIffStale ==
    [][\A t \in Tasks :
          LET added == Added(t)
          IN  /\ \A i \in DOMAIN added :
                    added[i].e = "_update_config" =>
                        /\ added[i].fetch <=>
                              (\/ IsNone(config.data)
                               \/ now > config.last_update.t + 2)
                        /\ added[i].fetch =>
                              /\ Len(added) = i + 1
                              /\ added[i + 1] = [e |-> "GET", url |-> ConfigurationUrl]
                        /\ ~added[i].fetch =>
                              /\ config' = config
                              /\ GetsOf(added, ConfigurationUrl) = <<>>
              /\ ( /\ Refreshing(t)
                   /\ added # <<>>
                   /\ added[1].e = "response"
                   /\ added[1].status = OK
                   /\ added[1].body.kind # "garbage" ) =>
                        config' = [data |-> added[1].body, last_update |-> Datetime(now)]
      ]_vars

C4_Witness ==
    \E t \in Tasks :
        /\ Select(tasks[t].trace, "_update_config") # <<>>
        /\ ResponsesTo(tasks[t].trace, ConfigurationUrl) # <<>>
        /\ config.data \in ConfigBodies
        /\ config.last_update = Datetime(now)
        /\ now > 2

\* C5: a 200 on a URL other than the configuration URL is followed at once by
\* the configuration check; a refresh the check starts is requested and answered
\* before the caller gets the body.  A response on the configuration URL is
\* never followed by a check, and no refresh runs inside a refresh.
C5_CheckAfterOkBeforeReturn ==
    \A t \in Tasks :
        LET tr == tasks[t].trace
            stack == tasks[t].stack
        IN  /\ \A i \in DOMAIN tr :
                  tr[i].e = "response" =>
                      IF tr[i].url # ConfigurationUrl
                      THEN (tr[i].status = OK /\ tr[i].body.kind # "garbage") =>
                              /\ i < Len(tr)
                              /\ tr[i + 1].e = "_update_config"
                              /\ tr[i + 1].fetch =>
                                    /\ i + 2 <= Len(tr)
                                    /\ tr[i + 2] = [e |-> "GET", url |-> ConfigurationUrl]
                                    /\ Len(tr) = i + 2 =>
                                          (stack # <<>> /\ tasks[t].out.kind = "pending")
                                    /\ Len(tr) > i + 2 =>
                                          /\ tr[i + 3].e = "response"
                                          /\ tr[i + 3].url = ConfigurationUrl
                      ELSE i < Len(tr) => tr[i + 1].e # "_update_config"
            /\ Cardinality({j \in DOMAIN stack : stack[j].fn = "_update_config"}) <= 1

C5_Witness ==
    \E t \in Tasks :
        LET tr == tasks[t].trace
        IN  /\ tasks[t].op.name = "get_movie"
            /\ tasks[t].out.kind = "return"
            /\ tasks[t].out.val.kind = "Movie"
            /\ Len(tr) >= 5
            /\ tr[2].e = "response" /\ tr[2].status = OK
            /\ tr[3].e = "_update_config" /\ tr[3].fetch
            /\ tr[5].e = "response" /\ tr[5].url = ConfigurationUrl

\* C6: get_movie, get_person, find_movie and find_person return None, raise
\* nothing and decode nothing when their request ends in a terminal HTTP failure
\* that get_data turns into None.
C6_FailedFetchGivesNone ==
    \A t \in Tasks :
        LET tk == tasks[t]
        IN  IsDataOp(tk.op) =>
            \A i \in DOMAIN tk.trace :
                ( /\ tk.trace[i].e = "response"
                  /\ tk.trace[i].status \notin {OK, TOO_MANY_REQUESTS}
                  /\ tk.trace[i].body.kind = "object"
                  /\ tk.trace[i].url # ConfigurationUrl ) =>
                      /\ tk.stack = <<>>
                      /\ tk.out = Val(None)
                      /\ Select(tk.trace, "from_json") = <<>>

C6_Witness ==
    \E t \in Tasks :
        /\ tasks[t].op.name = "get_movie"
        /\ Len(tasks[t].trace) = 2
        /\ tasks[t].trace[2].e = "response"
        /\ tasks[t].trace[2].status = NOT_FOUND
        /\ tasks[t].out = Val(None)

\* C7: the URL url_builder produces has the credential under api_key as its
\* last query parameter, after the caller's parameters in their order, also
\* when the caller's mapping already has the key api_key.
C7_AuthParamLast ==
    (ub.phase = "done" /\ ub.out.kind = "url") =>
        LET query == ub.out.query
            callers == SelectSeq(ub.given, LAMBDA kv : kv[1] # "api_key")
        IN  /\ query # <<>>
            /\ query[Len(query)] = <<"api_key", api_token>>
            /\ SubSeq(query, 1, Len(query) - 1) = urlencode(callers)

\* C8: a caller that builds a URL from a template with a placeholder it gives no
\* value for gets an error, and no request has been made.
C8_MissingPathParamRaisesFirst ==
    \A t \in Tasks :
        LET tk == tasks[t]
        IN  ( /\ tk.op.name = "get_data"
              /\ \E i \in DOMAIN tk.op.endpoint :
                    /\ "ph" \in DOMAIN tk.op.endpoint[i]
                    /\ tk.op.endpoint[i].ph \notin DOMAIN tk.op.params ) =>
                  /\ tk.out.kind = "raise"
                  /\ tk.stack = <<>>
                  /\ tk.trace = <<>>

C8_Witness ==
    \E t \in Tasks :
        /\ tasks[t].op.name = "get_data"
        /\ tasks[t].op.endpoint = EpMovie
        /\ "movie_id" \notin DOMAIN tasks[t].op.params
        /\ tasks[t].out = Exc("KeyError")
        /\ tasks[t].trace = <<>>

\* C9: in find_overlapping_movies / find_overlapping_actors a search that gives
\* no match (an empty list, or None) fails the operation with the ValueError of
\* _find_overlap ("no result found"): no list is returned and nothing is
\* requested afterwards.
C9_NoMatchFailsBatch ==
    \A t \in Tasks :
        LET tk == tasks[t]
        IN  tk.op.name \in {"find_overlapping_movies", "find_overlapping_actors"} =>
            \A i \in DOMAIN tk.trace :
                ( /\ tk.trace[i].e = "find_return"
                  /\ \/ IsNone(tk.trace[i].val)
                     \/ tk.trace[i].val.items = <<>> ) =>
                      /\ i = Len(tk.trace)
                      /\ tk.stack = <<>>
                      /\ tk.out = Exc("ValueError")

C9_Witness ==
    \E t \in Tasks :
        LET tk == tasks[t]
        IN  /\ tk.op.name = "find_overlapping_movies"
            /\ Len(tk.op.queries) = 2
            /\ tk.out = Exc("ValueError")
            /\ Len(Select(tk.trace, "find_return")) = 2
            /\ Select(tk.trace, "find_return")[2].val = List(<<>>)
            /\ Len(Select(tk.trace, "from_json")) >= 2

\* C10: without a client, overlapping_movies / overlapping_actors on a non-empty
\* list of entities that each have a set of related entities returns exactly
\* the entities that are in the set of every one of them; {1,2}, {2,3}, {2,4}
\* give {2}.
C10_OverlapIsIntersection ==
    /\ ( /\ ov.phase = "done"
         /\ ov.items # <<>>
         /\ \A i \in DOMAIN ov.items :
               ~IsNone(ov.items[i]) /\ ~IsNone(ov.items[i].rel) ) =>
            /\ ov.out.kind = "return"
            /\ ov.out.val.kind = "set"
            /\ \A id \in Ids \cup UNION {ov.items[i].rel.ids : i \in DOMAIN ov.items} :
                  id \in ov.out.val.ids <=>
                      \A i \in DOMAIN ov.items : id \in ov.items[i].rel.ids
            /\ ov.out.val.ids \subseteq Ids
    /\ ov.phase = "done" =>
          overlap_of(<<Person(1, SetOrNone({1, 2})), Person(2, SetOrNone({2, 3})),
                       Person(2, SetOrNone({2, 4}))>>) = Val({2})

C10_Witness ==
    /\ ov.phase = "done"
    /\ Len(ov.items) = 3
    /\ \A i \in DOMAIN ov.items : ~IsNone(ov.items[i]) /\ ~IsNone(ov.items[i].rel)
    /\ ov.items[1].rel.ids # ov.items[2].rel.ids
    /\ ov.out = Val([kind |-> "set", ids |-> {2}])

\* C11: overlapping_movies / overlapping_actors with a client request the
\* detail of an entity only if it is in the intersection and at most once; every
\* request of the operation is answered before the next is made; and an
\* operation that returns has requested every entity of the intersection
\* exactly once, in turn, and returns a list of as many elements as the
\* intersection has.
C11_OneFetchPerOverlap ==
    \A t \in Tasks :
        LET tk == tasks[t]
        IN  ( /\ tk.op.name \in {"overlapping_movies", "overlapping_actors"}
              /\ tk.op.items # <<>>
              /\ \A i \in DOMAIN tk.op.items : ~IsNone(tk.op.items[i].rel) ) =>
            LET inter == {id \in Ids : \A i \in DOMAIN tk.op.items :
                                          id \in tk.op.items[i].rel.ids}
                Detail(id) ==
                    IF tk.op.name = "overlapping_movies"
                    THEN Url(EpMovie, [n \in {"movie_id"} |-> FormatId(id)],
                             <<<<"append_to_response", "credits">>>>)
                    ELSE Url(EpPerson, [n \in {"person_id"} |-> FormatId(id)],
                             <<<<"append_to_response", "movie_credits">>>>)
                fetches == SelectSeq(tk.trace,
                              LAMBDA ev : ev.e = "GET" /\ ev.url # ConfigurationUrl)
            IN  /\ \A i \in DOMAIN fetches :
                      \E id \in inter : fetches[i].url = Detail(id)
                /\ \A id \in inter : Len(GetsOf(tk.trace, Detail(id))) <= 1
                /\ \A i \in DOMAIN tk.trace :
                      tk.trace[i].e = "GET" =>
                          IF i = Len(tk.trace)
                          THEN tk.stack # <<>> /\ Top(tk).await = "http"
                          ELSE /\ tk.trace[i + 1].e = "response"
                               /\ tk.trace[i + 1].url = tk.trace[i].url
                /\ tk.out.kind = "return" =>
                      /\ tk.out.val.kind = "list"
                      /\ Len(tk.out.val.items) = Cardinality(inter)
                      /\ Len(fetches) = Cardinality(inter)
                      /\ \A id \in inter : Len(GetsOf(tk.trace, Detail(id))) = 1

C11_Witness ==
    \E t \in Tasks :
        LET tk == tasks[t]
        IN  /\ tk.op.name = "overlapping_movies"
            /\ Len(tk.op.items) = 3
            /\ tk.op.items[1].rel = SetOrNone({1, 2})
            /\ tk.op.items[2].rel = SetOrNone({1, 2})
            /\ tk.op.items[3].rel = SetOrNone({1, 2})
            /\ tk.out.kind = "return"
            /\ Len(tk.out.val.items) = 2
            /\ tk.out.val.items[1].kind = "Movie" /\ tk.out.val.items[1].id_ = 1
            /\ tk.out.val.items[2].kind = "Movie" /\ tk.out.val.items[2].id_ = 2

\* C12: in get_random_popular_person with random index i and a first page of
\* L > 0 entries (i within the listing), the page used is (i div L) + 1 and the
\* in-page offset i mod L, which lies in [0, L); the second page is requested
\* only if that page is not the first; and the entity returned is the entry at
\* overall zero-based position i of the listing.
C12_SelectsOverallIndex ==
    \A t \in Tasks :
        LET tk == tasks[t]
        IN  FirstPageListed(tk) =>
            LET i == Select(tk.trace, "randrange")[1].index
                first == ResponsesTo(tk.trace, PageUrl(1))[1].body
                L == Len(first.results)
                page == (i \div L) + 1
                pages == PageGets(tk.trace)
            IN  (L > 0 /\ i < first.total_results) =>
                /\ \A k \in DOMAIN tk.trace :
                      tk.trace[k].e = "_calculate_page_index" =>
                          /\ tk.trace[k].page = page
                          /\ tk.trace[k].index = i % L
                          /\ tk.trace[k].index \in 0..(L - 1)
                /\ \/ pages = <<[e |-> "GET", url |-> PageUrl(1)]>>
                   \/ /\ page # 1
                      /\ pages = <<[e |-> "GET", url |-> PageUrl(1)],
                                   [e |-> "GET", url |-> PageUrl(page)]>>
                /\ ( /\ tk.out.kind = "return"
                     /\ ~IsNone(tk.out.val)
                     /\ page # 1 =>
                          /\ ResponsesTo(tk.trace, PageUrl(page)) # <<>>
                          /\ ResponsesTo(tk.trace, PageUrl(page))[1].body.results
                                = PageOf([size |-> L, total |-> first.total_results], page) ) =>
                        tk.out.val.id_ = i + 1

\* C13: with a first page of 10 entries (of a listing of at least 16) and the
\* random index 15, get_random_popular_person computes page 2 and in-page index
\* 4, requests page 2 next, requests no page but page 1 and then page 2, and the
\* entity it returns is the entry at zero-based index 4 of page 2.
C13_PagedExample ==
    \A t \in Tasks :
        LET tk == tasks[t]
        IN  ( /\ FirstPageListed(tk)
              /\ Select(tk.trace, "randrange")[1].index = 15
              /\ Len(ResponsesTo(tk.trace, PageUrl(1))[1].body.results) = 10
              /\ ResponsesTo(tk.trace, PageUrl(1))[1].body.total_results > 15 ) =>
            LET pages == PageGets(tk.trace)
            IN  /\ \A k \in DOMAIN tk.trace :
                      tk.trace[k].e = "_calculate_page_index" =>
                          /\ tk.trace[k].page = 2
                          /\ tk.trace[k].index = 4
                          /\ k < Len(tk.trace)
                          /\ tk.trace[k + 1] = [e |-> "GET", url |-> PageUrl(2)]
                /\ \/ pages = <<[e |-> "GET", url |-> PageUrl(1)]>>
                   \/ pages = <<[e |-> "GET", url |-> PageUrl(1)],
                                [e |-> "GET", url |-> PageUrl(2)]>>
                /\ (tk.out.kind = "return" /\ ~IsNone(tk.out.val)) =>
                      /\ Len(pages) = 2
                      /\ ResponsesTo(tk.trace, PageUrl(2)) # <<>>
                      /\ tk.out.val.kind = "Person"
                      /\ tk.out.val.id_ = ResponsesTo(tk.trace, PageUrl(2))[1].body.results[5]

C13_Witness ==
    \E t \in Tasks :
        LET tk == tasks[t]
        IN  /\ FirstPageListed(tk)
            /\ Select(tk.trace, "randrange")[1].index = 15
            /\ Len(ResponsesTo(tk.trace, PageUrl(1))[1].body.results) = 10
            /\ Len(PageGets(tk.trace)) = 2
            /\ ResponsesTo(tk.trace, PageUrl(2)) # <<>>
            /\ ResponsesTo(tk.trace, PageUrl(2))[1].status = OK
            /\ ResponsesTo(tk.trace, PageUrl(2))[1].body.kind = "object"
            /\ Len(ResponsesTo(tk.trace, PageUrl(2))[1].body.results) = 10
            /\ tk.out = Val(Person(15, None))

\* C14: a get_random_popular_person call that returns an entity has requested
\* the detail of that person (person/{id}) after its page requests.
C14_DetailFetchAfterPages ==
    \A t \in Tasks :
        LET tk == tasks[t]
        IN  ( /\ tk.op.name = "get_random_popular_person"
              /\ tk.out.kind = "return"
              /\ ~IsNone(tk.out.val) ) =>
            \E k \in DOMAIN tk.trace :
                /\ tk.trace[k].e = "GET"
                /\ tk.trace[k].url.path = <<"person/", FormatId(tk.out.val.id_)>>
                /\ \A j \in DOMAIN tk.trace :
                      (tk.trace[j].e = "GET" /\ tk.trace[j].url.path = <<"person/popular">>)
                          => j < k

\* C15: for entities A and B, Movie or Person in any combination, A == B if and
\* only if A.id == B.id, whatever their other fields; and A == B implies
\* hash(A) == hash(B).
C15_EqualIffSameId ==
    (md.phase = "done" /\ md.fn = "__eq__") =>
        /\ md.out.eq <=> (md.a.id_ = md.b.id_)
        /\ md.out.eq => md.out.hash_a = md.out.hash_b

\* C16: from_json called a second time on the dict of a first, successful call
\* succeeds too and gives an equal entity with equal fields.
C16_DecodeTwice ==
    ( /\ md.phase = "call"
      /\ md.fn = "from_json"
      /\ Len(md.outs) >= 2
      /\ md.outs[1].kind = "return" ) =>
          /\ md.outs[2].kind = "return"
          /\ __eq__(md.outs[1].val, md.outs[2].val)
          /\ md.outs[2].val = md.outs[1].val

\* C17: from_json of a dict without 'id' fails and gives no entity; from_json
\* of a dict with an id gives, for each optional key the dict lacks, an entity
\* with None for it, and succeeds when it lacks them all.
C17_IdIsMandatory ==
    (md.phase = "call" /\ md.fn = "from_json" /\ md.outs # <<>>) =>
        IF md.given.id = NoId
        THEN md.outs[1].kind = "raise"
        ELSE /\ md.outs[1].kind = "return" =>
                  /\ md.given.nested = Missing => IsNone(md.outs[1].val.rel)
                  /\ md.given.date = Missing => IsNone(md.outs[1].val.date)
                  /\ md.given.image_path = Missing => IsNone(md.outs[1].val.image_path)
             /\ ( /\ md.given.nested = Missing
                  /\ md.given.date = Missing
                  /\ md.given.image_path = Missing ) => md.outs[1].kind = "return"

\* C18: from_json of a dict with an id whose release_date / birthday is
\* missing, null, empty or not a YYYY-MM-DD date succeeds: the entity has no
\* date, and its id, related entities and image path are those of the dict.
C18_BadDateIsAbsent ==
    ( /\ md.phase = "call"
      /\ md.fn = "from_json"
      /\ md.outs # <<>>
      /\ md.given.id # NoId
      /\ md.given.date \in {Missing, None, EmptyStr, BadDateStr} ) =>
          /\ md.outs[1].kind = "return"
          /\ md.outs[1].val =
                Entity(md.cls, md.given.id,
                       IF md.given.nested = Missing
                       THEN None
                       ELSE SetOrNone(md.given.nested.ids),
                       None, Get(md.given.image_path))

\* C19: on a list with at least one token with a w or h prefix, _image_size
\* returns such a token, one whose number is nearest to the target; it returns
\* a token without the prefix only if the list has none with it.  Poster sizes:
\* 300 gives w342, 500 gives w500; profile sizes: 300 gives w185, 500 gives h632.
C19_NearestSize ==
    /\ (md.phase = "done" /\ md.fn = "_image_size" /\ md.sizes # <<>>) =>
          LET sized == {i \in DOMAIN md.sizes : md.sizes[i].prefix \in {"w", "h"}}
              Dist(n) == IF md.target >= n THEN md.target - n ELSE n - md.target
          IN  /\ md.out.kind = "return"
              /\ \E i \in DOMAIN md.sizes : md.out.val = md.sizes[i]
              /\ sized # {} =>
                    /\ md.out.val.prefix \in {"w", "h"}
                    /\ \A i \in sized : Dist(md.out.val.n) <= Dist(md.sizes[i].n)
    /\ md.phase = "done" =>
          /\ _image_size(PosterSizes, 300) = Val(Size("w", 342))
          /\ _image_size(PosterSizes, 500) = Val(Size("w", 500))
          /\ _image_size(ProfileSizes, 300) = Val(Size("w", 185))
          /\ _image_size(ProfileSizes, 500) = Val(Size("h", 632))

\* C20: image_url raises nothing; it is None if the entity has no image path
\* or its class has no image configuration, and a URL if it has both.
C20_ImageUrlOrNone ==
    (md.phase = "call" /\ md.fn = "from_json" /\ md.url # Missing) =>
        LET self == md.outs[Len(md.outs)].val
        IN  /\ md.url.kind = "return"
            /\ IF IsNone(self.image_path) \/ IsNone(image_config[self.kind])
               THEN IsNone(md.url.val)
               ELSE md.url.val.kind = "image_url"

\* C21: `item in container` raises nothing; it is true if and only if the item
\* is of the class the container holds (a Person for a Movie, a Movie for a
\* Person), the container has a set of related entities, and an entity with the
\* item's id is in it.
C21_ContainsById ==
    (md.phase = "done" /\ md.fn = "__contains__") =>
        /\ md.out.kind = "return"
        /\ md.out.val.b <=>
              /\ md.item.kind = CONTAINS(md.container.kind)
              /\ ~IsNone(md.container.rel)
              /\ md.item.id_ \in md.container.rel.ids

\* C22: with tasks sharing a client, every change of the stored configuration
\* is the assignment of one refresh: the data that refresh fetched together
\* with the time of the assignment; and a stored configuration is never
\* replaced by an absent one.
C22_ConfigWrittenWhole ==
    [][config' # config =>
          /\ \E t \in Tasks :
                /\ Refreshing(t)
                /\ Added(t) # <<>>
                /\ Added(t)[1].e = "response"
                /\ Added(t)[1].url = ConfigurationUrl
                /\ config'.last_update = Datetime(now)
                /\ \/ IsNone(config'.data)
                   \/ Added(t)[1].status = OK /\ config'.data = Added(t)[1].body
          /\ ~IsNone(config.data) => ~IsNone(config'.data)
      ]_vars

\* C23: a get_data call that is requesting and receives a 429 (carrying
\* Retry-After, with a decodable body) becomes rate-limited: it does not
\* terminate on that response, it sleeps the backoff before it requests again.
C23_RateLimitedSleeps ==
    [][\A t \in Tasks :
          ( /\ tasks[t].stack # <<>>
            /\ Top(tasks[t]).fn = "get_data"
            /\ Top(tasks[t]).await = "http"
            /\ Added(t) # <<>>
            /\ Added(t)[1].e = "response"
            /\ Added(t)[1].status = TOO_MANY_REQUESTS
            /\ Added(t)[1].retry_after
            /\ Added(t)[1].body.kind # "garbage" ) =>
                /\ tasks'[t].out.kind = "pending"
                /\ tasks'[t].stack # <<>>
                /\ Top(tasks'[t]).fn = "get_data"
                /\ Top(tasks'[t]).await = "sleep"
                /\ Select(Added(t), "GET") = <<>>]_vars

\* C24: a data operation whose own request is answered 200 and whose
\* refresh is answered with a failure (neither 200 nor 429) completes without
\* raising and returns what it decoded.
C24_FailedRefreshStillReturns ==
    \A t \in Tasks :
        LET tk == tasks[t]
            rs == Select(tk.trace, "response")
        IN  ( /\ IsDataOp(tk.op)
              /\ Len(rs) = 2
              /\ rs[1].url # ConfigurationUrl
              /\ rs[1].status = OK
              /\ rs[1].body.kind = "object"
              /\ rs[2].url = ConfigurationUrl
              /\ rs[2].status \notin {OK, TOO_MANY_REQUESTS}
              /\ rs[2].body.kind = "object" ) =>
                  /\ tk.out.kind = "return"
                  /\ ~IsNone(tk.out.val)

\* C25: a url_builder call leaves the query-parameter mapping its caller
\* passed as it was given, and leaves the stored configuration alone.
C25_UrlBuilderLeavesArguments ==
    (ub.phase = "done" /\ ub.given # <<>>) =>
        /\ ub.url_params = ub.given
        /\ config = NoConfig

\* C26: the image URL of an entity is the same after a later from_json
\* call, whatever image configuration that call was given.
C26_ImageUrlStable ==
    (md.phase = "call" /\ md.fn = "from_json" /\ md.url2 # Missing) =>
        md.url2 = md.url

====
